---- MODULE Spec2Model ----
(***************************************************************************)
(* A model of flasync (src/lib/flasync.js): the mix-in that serialises the *)
(* calls of a fluent API through a to-do list (_todo) and a counter        *)
(* (_pendingCount).  JavaScript runs every call to completion, so each     *)
(* action below is one whole call from the event loop: a call of the API   *)
(* by the user, or the completion of an asynchronous task.  The functions  *)
(* of the library are operators over a record s of the object's fields,    *)
(* and call each other as they do in the source.                           *)
(***************************************************************************)
EXTENDS Integers, Sequences, FiniteSets, TLC

\* The number of API calls one run issues (nested calls and onError included).
MaxCalls == 4

VARIABLES
  todo,          \* thing._todo: the tasks not yet started
  pendingCount,  \* thing._pendingCount
  onError,       \* whether thing._onError is set
  handlerCalls,  \* the API calls the registered error handler makes
  inflight,      \* tasks started whose done callback is still to be called
  nextId,        \* the number the next API call gets (calls are numbered as issued)
  calls,         \* calls[i]: the i-th call issued
  trace,         \* what happened so far, in order
  thrown         \* the error the last call let escape to its caller (0: none)

vars == <<todo, pendingCount, onError, handlerCalls, inflight, nextId, calls, trace, thrown>>

----------------------------------------------------------------------------
(* What the user's functions do.                                           *)

\* A synchronous method wrapped by asyncify: it has its effect, or throws.
MethodBehaviours == {"ok", "throw"}

\* A task given to then(): it has its effect, makes its own calls of the API
\* and calls done() before it returns ("done"), or it throws.
ThenBehaviours == {"done", "throw"}

\* An asynchronous method wrapped by async: it returns and calls done() from
\* a later event, after its effect ("later") or with an error ("fail").
AsyncBehaviours == {"later", "fail"}

\* A callback given to finally(): it returns or throws.
CallbackBehaviours == {"ok", "throw"}

Call(op, beh, nest) == [op |-> op, beh |-> beh, nest |-> nest]

\* The calls a task, a finally callback or an error handler may make itself.
WriteSyncCall == Call("writeSync", "ok", <<>>)
WriteCall == Call("write", "later", <<>>)
FinallyCall == Call("finally", "ok", <<>>)

\* A task given to then() that returns without calling done and, in a later
\* event, hands its done callback to finally ("selfFinally"), which then has
\* that callback ("next") for its own.
SelfFinallyCall == Call("then", "selfFinally", <<Call("finally", "next", <<>>)>>)

Nests ==
  { <<>>, <<WriteSyncCall, WriteCall>>, <<FinallyCall>> }

HandlerNests == { <<>>, <<WriteCall>> }

----------------------------------------------------------------------------
(* The object's fields as one record, and the log.                         *)

Ids(q) == [i \in 1..Len(q) |-> q[i].id]

Event(s, e, id) == [e |-> e, id |-> id, pc |-> s.pendingCount, q |-> Ids(s.todo)]

Log(s, e, id) == [s EXCEPT !.trace = Append(@, Event(s, e, id))]

\* throw err: the function ends here, and so does each caller up to a catch.
Throw(s, err) == [Log(s, "throw", err) EXCEPT !.exc = err]

\* return v
Return(s, v) == IF s.exc # 0 THEN s ELSE [s EXCEPT !.ret = v]

RECURSIVE NextTask(_), RunTask(_, _), Done(_, _, _), Then(_, _), Finally(_, _)
RECURSIVE Asyncified(_, _), AsyncMethod(_, _), Issue(_, _), RunCalls(_, _)
RECURSIVE Handler(_, _), Catch(_), CallAsyncifiedMethod(_, _), FinalTask(_, _)
RECURSIVE UserTask(_, _), DoneOf(_, _), CallNext(_)

\* The calls a user function makes, one after the other; an error ends them.
RunCalls(s, cs) ==
  IF cs = <<>> \/ s.exc # 0 THEN s
  ELSE RunCalls(Issue(s, Head(cs)), Tail(cs))

\* thing._onError(err): the user's handler.
Handler(s, err) == RunCalls(Log(s, "handler", err), s.handlerCalls)

\* The wrapped synchronous method itself (method.apply / bound.apply).
Method(s, t) ==
  IF t.beh = "throw" THEN Throw(s, t.id) ELSE Log(s, "effect", t.id)

\* Done only counting down, leaving the next task to a later call.
DoneDefersDrain(s, id, err) ==
  LET s0 == Log(s, IF err # 0 THEN "doneErr" ELSE "done", id)
      s1 == IF err # 0 /\ s0.onError
              THEN Handler([Log(s0, "clear", err) EXCEPT !.todo = <<>>, !.pendingCount = 0], err)
              ELSE s0
  IN IF s1.exc # 0 THEN s1
     ELSE [s1 EXCEPT !.pendingCount = @ - 1]

\* Done ending the drain when it is given an error and there is no handler.
DoneStopsOnError(s, id, err) ==
  LET s0 == Log(s, IF err # 0 THEN "doneErr" ELSE "done", id)
      s1 == IF err # 0 /\ s0.onError
              THEN Handler([Log(s0, "clear", err) EXCEPT !.todo = <<>>, !.pendingCount = 0], err)
              ELSE s0
  IN IF s1.exc # 0 THEN s1
     ELSE IF err # 0 THEN [s1 EXCEPT !.pendingCount = @ - 1]
     ELSE NextTask([s1 EXCEPT !.pendingCount = @ - 1])

\* Done handing the error to the handler without emptying the queue.
DoneKeepsQueue(s, id, err) ==
  LET s0 == Log(s, IF err # 0 THEN "doneErr" ELSE "done", id)
      s1 == IF err # 0 /\ s0.onError
              THEN Handler([Log(s0, "clear", err) EXCEPT !.pendingCount = 0], err)
              ELSE s0
  IN IF s1.exc # 0 THEN s1
     ELSE NextTask([s1 EXCEPT !.pendingCount = @ - 1])

\* The callback nextTask hands to a task (flasync.js 64-72).
Done(s, id, err) ==
  LET s0 == Log(s, IF err # 0 THEN "doneErr" ELSE "done", id)
      s1 == IF err # 0 /\ s0.onError
              THEN Handler([Log(s0, "clear", err) EXCEPT !.todo = <<>>, !.pendingCount = 0], err)
              ELSE s0
  IN IF s1.exc # 0 THEN s1
     ELSE NextTask([s1 EXCEPT !.pendingCount = @ - 1])

\* Task x, in flight, calls its done callback.
DoneOf(s, x) == Done([s EXCEPT !.inflight = @ \ {x}], x.id, 0)

\* The task asyncified() enqueues (flasync.js 103-106).
CallAsyncifiedMethod(s, t) ==
  LET s1 == Method(s, t)
  IN IF s1.exc # 0 THEN s1 ELSE Done(s1, t.id, 0)

\* FinalTask with the decrement of pendingCount forgotten.
FinalTaskNoDecrement(s, t) ==
  LET s1 == Log(s, "fire", t.id)
  IN IF t.beh = "throw" THEN Throw(s1, t.id) ELSE RunCalls(s1, t.nest)

\* The done callback of the task in flight that handed it to finally
\* (api.then(function (next) { ... api.finally(next) ... })), called as the
\* callback of that finally.
CallNext(s) ==
  DoneOf(s, CHOOSE x \in s.inflight : x.beh = "selfFinally")

\* FinalTask invoking the callback before it counts itself out.
FinalTaskCountsLate(s, t) ==
  LET s1 == Log(s, "fire", t.id)
      s2 == IF t.beh = "throw" THEN Throw(s1, t.id) ELSE RunCalls(s1, t.nest)
  IN IF s2.exc # 0 THEN s2 ELSE [s2 EXCEPT !.pendingCount = @ - 1]

\* The task finally() enqueues (flasync.js 43-46): it is not given to call done.
FinalTask(s, t) ==
  LET s1 == Log([s EXCEPT !.pendingCount = @ - 1], "fire", t.id)
  IN CASE t.beh = "throw" -> Throw(s1, t.id)
       [] t.beh = "next" -> CallNext(s1)
       [] OTHER -> RunCalls(s1, t.nest)

\* A task of the user: a function given to then(), or a bound asynchronous method.
UserTask(s, t) ==
  CASE t.beh = "done" ->
         LET s1 == RunCalls(Log(s, "effect", t.id), t.nest)
         IN IF s1.exc # 0 THEN s1 ELSE Done(s1, t.id, 0)
    [] t.beh = "throw" -> Throw(s, t.id)
    [] OTHER -> [s EXCEPT !.inflight = @ \cup {t}]

\* The function of task id returns, unless an error ended it before.
Returned(s, id) == IF s.exc # 0 THEN s ELSE Log(s, "end", id)

\* task.call(this, done) (flasync.js 64-72), up to the return of the task.
RunTask(s, t) ==
  Returned(CASE t.kind = "finally" -> FinalTask(s, t)
             [] t.kind = "asyncified" -> CallAsyncifiedMethod(s, t)
             [] OTHER -> UserTask(s, t),
           t.id)

\* Catch throwing the error again after the handler has had it.
CatchAlsoRethrows(s) ==
  LET err == s.exc
      s1 == [Log(s, "clear", err) EXCEPT !.todo = <<>>, !.pendingCount = 0]
      s2 == IF s1.onError THEN Handler([s1 EXCEPT !.exc = 0], err) ELSE s1
  IN [Log(s2, "rethrow", err) EXCEPT !.exc = err]

\* Catch dropping the error when no handler is registered.
CatchSwallows(s) ==
  LET err == s.exc
      s1 == [Log(s, "clear", err) EXCEPT !.todo = <<>>, !.pendingCount = 0]
  IN IF s1.onError THEN Handler([s1 EXCEPT !.exc = 0], err) ELSE [s1 EXCEPT !.exc = 0]

\* The catch block of nextTask (flasync.js 74-80).
Catch(s) ==
  LET err == s.exc
      s1 == [Log(s, "clear", err) EXCEPT !.todo = <<>>, !.pendingCount = 0]
  IN IF s1.onError THEN Handler([s1 EXCEPT !.exc = 0], err) ELSE Log(s1, "rethrow", err)

\* NextTask calling the task without counting it as pending.
NextTaskNoIncrement(s) ==
  IF Len(s.todo) = 0 THEN s
  ELSE LET t == Head(s.todo)
           s1 == [s EXCEPT !.todo = Tail(@)]
           s2 == Log(s1, "start", t.id)
           s3 == RunTask(s2, t)
       IN IF s3.exc # 0 THEN Catch(s3) ELSE s3

\* NextTask taking the task appended last (pop for shift).
NextTaskFromTail(s) ==
  IF Len(s.todo) = 0 THEN s
  ELSE LET t == s.todo[Len(s.todo)]
           s1 == [s EXCEPT !.todo = SubSeq(@, 1, Len(@) - 1)]
           s2 == Log([s1 EXCEPT !.pendingCount = @ + 1], "start", t.id)
           s3 == RunTask(s2, t)
       IN IF s3.exc # 0 THEN Catch(s3) ELSE s3

\* thing._nextTask (flasync.js 56-82).
NextTask(s) ==
  IF Len(s.todo) = 0 THEN s
  ELSE LET t == Head(s.todo)
           s1 == [s EXCEPT !.todo = Tail(@)]
           s2 == Log([s1 EXCEPT !.pendingCount = @ + 1], "start", t.id)
           s3 == RunTask(s2, t)
       IN IF s3.exc # 0 THEN Catch(s3) ELSE s3

\* Then only appending the task, whatever pendingCount is.
ThenNoKick(s, t) ==
  Return(Log([s EXCEPT !.todo = Append(@, t)], "enq", t.id), "thing")

\* Then starting a task whatever pendingCount is.
ThenStartsAlways(s, t) ==
  LET s1 == Log([s EXCEPT !.todo = Append(@, t)], "enq", t.id)
  IN Return(NextTask(s1), "thing")

\* thing.then (flasync.js 21-29).
Then(s, t) ==
  LET s1 == Log([s EXCEPT !.todo = Append(@, t)], "enq", t.id)
  IN Return(IF s1.pendingCount = 0 THEN NextTask(s1) ELSE s1, "thing")

\* Finally leaving its task in the queue of an idle chain.
FinallyNoKick(s, t) ==
  Return(Log([s EXCEPT !.todo = Append(@, t)], "enq", t.id), "undefined")

\* thing.finally (flasync.js 41-50).
Finally(s, t) ==
  LET s1 == Log([s EXCEPT !.todo = Append(@, t)], "enq", t.id)
  IN Return(IF s1.pendingCount = 0 THEN NextTask(s1) ELSE s1, "undefined")

\* Asyncified running the method at once whatever pendingCount is.
AsyncifiedInline(s, t) == Return(Method(s, t), "thing")

\* Asyncified enqueueing a task whatever pendingCount is.
AsyncifiedDeferred(s, t) == Return(Then(s, t), "thing")

\* The function asyncify returns (flasync.js 94-108).
Asyncified(s, t) ==
  IF s.pendingCount = 0 THEN Return(Method(s, t), "thing")  \* the method returns this
  ELSE Return(Then(s, t), "thing")

\* AsyncMethod calling the method at once on an idle chain, as asyncified does.
AsyncMethodInline(s, t) ==
  IF s.pendingCount = 0 THEN Return(UserTask(s, t), "thing") ELSE Then(s, t)

\* The function async returns (flasync.js 121-126).
AsyncMethod(s, t) == Then(s, t)

Kind(op) ==
  CASE op = "writeSync" -> "asyncified"
    [] op = "write" -> "async"
    [] op = "finally" -> "finally"
    [] OTHER -> "then"

\* One call of the API, by the user or by one of the user's functions.
Issue(s, c) ==
  LET id == s.nextId
      t == [id |-> id, kind |-> Kind(c.op), beh |-> c.beh, nest |-> c.nest]
      s1 == Log([s EXCEPT !.nextId = @ + 1, !.calls = Append(@, c)], "call", id)
      s2 == CASE c.op = "writeSync" -> Asyncified(s1, t)
              [] c.op = "write" -> AsyncMethod(s1, t)
              [] c.op = "finally" -> Finally(s1, t)
              [] OTHER -> Then(s1, t)
  IN IF s2.exc # 0 THEN s2
     ELSE Log(s2, IF s2.ret = "thing" THEN "retThing" ELSE "retUndefined", id)

----------------------------------------------------------------------------
(* The state machine.                                                      *)

Cur ==
  [todo |-> todo, pendingCount |-> pendingCount, onError |-> onError,
   handlerCalls |-> handlerCalls, inflight |-> inflight, nextId |-> nextId,
   calls |-> calls, trace |-> trace, exc |-> 0, ret |-> "undefined"]

\* The state after a call from the event loop that left the fields as in s;
\* an error nothing caught reaches the event loop.
Becomes(s) ==
  /\ todo' = s.todo
  /\ pendingCount' = s.pendingCount
  /\ onError' = s.onError
  /\ handlerCalls' = s.handlerCalls
  /\ inflight' = s.inflight
  /\ nextId' = s.nextId
  /\ calls' = s.calls
  /\ trace' = IF s.exc # 0 THEN Log(s, "uncaught", s.exc).trace ELSE s.trace
  /\ thrown' = s.exc

\* flasync(thing) (flasync.js 10-13).
Init ==
  /\ todo = <<>>
  /\ pendingCount = 0
  /\ onError = FALSE
  /\ handlerCalls = <<>>
  /\ inflight = {}
  /\ nextId = 1
  /\ calls = <<>>
  /\ trace = <<>>
  /\ thrown = 0

\* A task or callback that can end in the error handler.
Faulty(t) == t.beh \in {"throw", "fail"}

SumLen(S) ==
  LET RECURSIVE Sum(_)
      Sum(T) == IF T = {} THEN 0
                ELSE LET x == CHOOSE y \in T : TRUE IN Len(x.nest) + Sum(T \ {x})
  IN Sum(S)

Waiting == {todo[i] : i \in 1..Len(todo)} \cup inflight

\* The calls issued so far and those the waiting tasks and the handler will issue.
Planned(h) ==
  (nextId - 1) + SumLen(Waiting) + Len(h) * Cardinality({t \in Waiting : Faulty(t)})
    + (IF onError THEN 1 ELSE 0)

Room(c, h) ==
  Planned(h) + 1 + Len(c.nest) + (IF Faulty(c) THEN Len(h) ELSE 0) <= MaxCalls

CallThen ==
  \E beh \in ThenBehaviours, nest \in Nests :
    /\ beh # "done" => nest = <<>>
    /\ Room(Call("then", beh, nest), handlerCalls)
    /\ Becomes(Issue(Cur, Call("then", beh, nest)))

CallWrite ==
  \E beh \in AsyncBehaviours :
    /\ Room(Call("write", beh, <<>>), handlerCalls)
    /\ Becomes(Issue(Cur, Call("write", beh, <<>>)))

CallWriteSync ==
  \E beh \in MethodBehaviours :
    /\ Room(Call("writeSync", beh, <<>>), handlerCalls)
    /\ Becomes(Issue(Cur, Call("writeSync", beh, <<>>)))

CallFinally ==
  \E beh \in CallbackBehaviours, nest \in Nests :
    /\ beh # "ok" => nest = <<>>
    /\ Room(Call("finally", beh, nest), handlerCalls)
    /\ Becomes(Issue(Cur, Call("finally", beh, nest)))

\* thing.onError (flasync.js 135-138).
CallOnError ==
  \E h \in HandlerNests :
    /\ ~onError
    /\ Planned(h) + 1 <= MaxCalls
    /\ Becomes(Log([Cur EXCEPT !.onError = TRUE, !.handlerCalls = h], "onError", 0))

\* Complete with the call of done() forgotten.
CompleteWithoutDone ==
  \E t \in inflight :
    /\ t.beh = "later"
    /\ Becomes(Log([Cur EXCEPT !.inflight = @ \ {t}], "effect", t.id))

\* A later event in which a task in flight has its effect and calls done().
Complete ==
  \E t \in inflight :
    /\ t.beh = "later"
    /\ Becomes(Done(Log([Cur EXCEPT !.inflight = @ \ {t}], "effect", t.id), t.id, 0))

\* A later event in which a task in flight calls done(err).
CompleteWithError ==
  \E t \in inflight :
    /\ t.beh = "fail"
    /\ Becomes(Done([Cur EXCEPT !.inflight = @ \ {t}], t.id, t.id))

Next ==
  \/ CallThen
  \/ CallWrite
  \/ CallWriteSync
  \/ CallFinally
  \/ CallOnError
  \/ Complete
  \/ CompleteWithError

Spec == Init /\ [][Next]_vars

\* A task in flight waits for the event in which it calls done(). This is
\* ENABLED <<Complete>>_vars: Complete is defined for every such task and
\* always adds to the log.
CompleteEnabled == \E t \in inflight : t.beh = "later"

\* Every asynchronous task that is to call done() does so in the end: the
\* event it waits for (process.nextTick in the tests) comes. The condition
\* is WF_vars(Complete) written out, with CompleteEnabled for its ENABLED.
FairSpec == Spec /\ ([]<>~CompleteEnabled \/ []<><<Complete>>_vars)

----------------------------------------------------------------------------
(* Longer runs of fewer kinds of calls: the error handler makes an         *)
(* asynchronous call, the task given to then makes an asyncified call      *)
(* before it calls done, and finally and the failing call are used once.   *)

MaxDeepCalls == 7

DeepRoom(c, h) ==
  Planned(h) + 1 + Len(c.nest) + (IF Faulty(c) THEN Len(h) ELSE 0) <= MaxDeepCalls

Issued(c) == \E i \in 1..Len(calls) : calls[i] = c

\* A task that makes an asyncified call and then calls done().
NestingThenCall == Call("then", "done", <<WriteSyncCall>>)

DeepThen ==
  /\ ~Issued(NestingThenCall)
  /\ DeepRoom(NestingThenCall, handlerCalls)
  /\ Becomes(Issue(Cur, NestingThenCall))

DeepWrite ==
  \E beh \in AsyncBehaviours :
    /\ beh = "fail" => ~Issued(Call("write", "fail", <<>>))
    /\ DeepRoom(Call("write", beh, <<>>), handlerCalls)
    /\ Becomes(Issue(Cur, Call("write", beh, <<>>)))

DeepFinally ==
  /\ ~Issued(FinallyCall)
  /\ DeepRoom(FinallyCall, handlerCalls)
  /\ Becomes(Issue(Cur, FinallyCall))

DeepOnError ==
  /\ ~onError
  /\ Planned(<<WriteCall>>) + 1 <= MaxDeepCalls
  /\ Becomes(Log([Cur EXCEPT !.onError = TRUE, !.handlerCalls = <<WriteCall>>], "onError", 0))

DeepNext ==
  \/ DeepThen
  \/ DeepWrite
  \/ DeepFinally
  \/ DeepOnError
  \/ Complete
  \/ CompleteWithError

DeepSpec == Init /\ [][DeepNext]_vars

----------------------------------------------------------------------------
(* Runs with a task that hands its own done callback to finally.           *)

MaxSelfCalls == 5

SelfRoom(c, h) ==
  Planned(h) + 1 + Len(c.nest) + (IF Faulty(c) THEN Len(h) ELSE 0) <= MaxSelfCalls

\* api.then(function (next) { process.nextTick(...) })
SelfThen ==
  /\ ~Issued(SelfFinallyCall)
  /\ SelfRoom(SelfFinallyCall, handlerCalls)
  /\ Becomes(Issue(Cur, SelfFinallyCall))

\* The later event in which that task calls api.finally(next).
Tick ==
  \E t \in inflight :
    /\ t.beh = "selfFinally"
    /\ t.nest # <<>>
    /\ Becomes(RunCalls([Cur EXCEPT !.inflight = (@ \ {t}) \cup {[t EXCEPT !.nest = <<>>]}],
                        t.nest))

SelfThenAfter ==
  /\ SelfRoom(Call("then", "done", <<>>), handlerCalls)
  /\ Becomes(Issue(Cur, Call("then", "done", <<>>)))

SelfWrite ==
  \E beh \in AsyncBehaviours :
    /\ SelfRoom(Call("write", beh, <<>>), handlerCalls)
    /\ Becomes(Issue(Cur, Call("write", beh, <<>>)))

SelfWriteSync ==
  /\ SelfRoom(WriteSyncCall, handlerCalls)
  /\ Becomes(Issue(Cur, WriteSyncCall))

SelfFinally ==
  /\ SelfRoom(FinallyCall, handlerCalls)
  /\ Becomes(Issue(Cur, FinallyCall))

SelfOnError ==
  \E h \in HandlerNests :
    /\ ~onError
    /\ Planned(h) + 1 <= MaxSelfCalls
    /\ Becomes(Log([Cur EXCEPT !.onError = TRUE, !.handlerCalls = h], "onError", 0))

SelfNext ==
  \/ SelfThen
  \/ Tick
  \/ SelfThenAfter
  \/ SelfWrite
  \/ SelfWriteSync
  \/ SelfFinally
  \/ SelfOnError
  \/ Complete
  \/ CompleteWithError

SelfSpec == Init /\ [][SelfNext]_vars

----------------------------------------------------------------------------
(* Reading the log.                                                        *)

Events == 1..Len(trace)

Is(i, e, id) == trace[i].e = e /\ trace[i].id = id

Happened(e, id) == \E i \in Events : Is(i, e, id)

Op(id) == calls[id].op

\* The effects so far, as the numbers of the calls that had them.
RECURSIVE EffectsOf(_)
EffectsOf(tr) ==
  IF tr = <<>> THEN <<>>
  ELSE IF Head(tr).e = "effect" THEN <<Head(tr).id>> \o EffectsOf(Tail(tr))
       ELSE EffectsOf(Tail(tr))

Effects == EffectsOf(trace)

\* Nothing is queued and nothing is in flight.
Quiet == todo = <<>> /\ inflight = {}

\* finally is not used, and every task calls done once without an error.
FaultFree(id) == calls[id].beh \notin {"throw", "fail"}

NoFinallyNoFault ==
  \A id \in 1..Len(calls) : Op(id) # "finally" /\ FaultFree(id)

----------------------------------------------------------------------------
(* The claims.                                                             *)

\* C1: in a run without finally in which every task calls done once without
\* an error, the effects occur in the order in which the calls were issued,
\* whichever calls are asynchronous and whenever they complete: the effects
\* so far are those of the first calls issued, in that order, and once
\* nothing is queued or in flight every call issued has had its effect.
C1_Ordering ==
  NoFinallyNoFault =>
    /\ \A i \in 1..Len(Effects) : Effects[i] = i
    /\ Quiet => Len(Effects) = Len(calls)

\* A synchronous call, an asynchronous call that completed later and a
\* synchronous call deferred behind it have had their effects.
C1_Witness ==
  /\ NoFinallyNoFault
  /\ Quiet
  /\ Len(Effects) >= 3
  /\ \E a, b \in 1..Len(calls) :
       /\ a < b
       /\ Op(a) = "write"
       /\ Op(b) = "writeSync"
       /\ Happened("enq", b)
       /\ Happened("effect", b)


\* The place in the log of the one event e of call id.
At(e, id) == CHOOSE i \in Events : Is(i, e, id)

\* Call id is a call of the asyncified method, issued at place i of the log.
WriteSyncCallAt(i) == trace[i].e = "call" /\ Op(trace[i].id) = "writeSync"

\* C2: a call of an asyncified method while pendingCount > 0 does not run
\* the method: it appends exactly one task at the tail of the queue and
\* returns the host object, leaving pendingCount alone, and the method has
\* its effect only when that task has been dequeued and started.
C2_Deferral ==
  \A i \in Events :
    WriteSyncCallAt(i) /\ trace[i].pc > 0 =>
      LET id == trace[i].id
          queued == [e |-> "enq", id |-> id, pc |-> trace[i].pc, q |-> Append(trace[i].q, id)]
      IN /\ i + 2 <= Len(trace)
         /\ trace[i + 1] = queued
         /\ trace[i + 2] = [queued EXCEPT !.e = "retThing"]
         /\ \A j \in Events : Is(j, "effect", id) => j > i + 2 /\ Is(j - 1, "start", id)

\* An asyncified call was deferred behind a task in flight and had its
\* effect later, when its task was started.
C2_Witness ==
  \E i \in Events :
    /\ WriteSyncCallAt(i)
    /\ trace[i].pc > 0
    /\ Happened("start", trace[i].id)
    /\ Happened("effect", trace[i].id)

\* C3: a call of an asyncified method while pendingCount = 0 runs the
\* method before it returns: the effect is there on return, the queue and
\* pendingCount are as before the call, and no task is ever enqueued for it.
C3_FastPath ==
  \A i \in Events :
    WriteSyncCallAt(i) /\ trace[i].pc = 0 =>
      LET id == trace[i].id
      IN /\ i + 1 <= Len(trace)
         /\ ~Happened("enq", id)
         /\ ~Happened("start", id)
         /\ trace[i + 1] = [trace[i] EXCEPT !.e = IF calls[id].beh = "ok" THEN "effect" ELSE "throw"]
         /\ calls[id].beh = "ok" =>
              /\ i + 2 <= Len(trace)
              /\ trace[i + 2] = [trace[i] EXCEPT !.e = "retThing"]

\* An asyncified call ran inline on an idle chain that had run tasks before.
C3_Witness ==
  \E i \in Events :
    /\ WriteSyncCallAt(i)
    /\ trace[i].pc = 0
    /\ calls[trace[i].id].beh = "ok"
    /\ \E j \in 1..(i - 1) : trace[j].e = "done"
    /\ Happened("retThing", trace[i].id)

\* The tasks a catch or a done(err) threw away before place j of the log.
DiscardedBefore(id, j) ==
  \E k \in 1..(j - 1) :
    /\ trace[k].e = "clear"
    /\ \E n \in 1..Len(trace[k].q) : trace[k].q[n] = id

\* C4: tasks are started in the order in which they were appended to the
\* queue: of two started tasks the one enqueued first is started first, and
\* when a task starts every task enqueued before it has been started or was
\* thrown away with the queue.
C4_Fifo ==
  \A j \in Events :
    trace[j].e = "start" =>
      /\ \A i \in 1..(j - 1) :
           trace[i].e = "start" => At("enq", trace[i].id) < At("enq", trace[j].id)
      /\ \A k \in 1..(At("enq", trace[j].id) - 1) :
           trace[k].e = "enq" =>
             \/ \E i \in 1..(j - 1) : Is(i, "start", trace[k].id)
             \/ DiscardedBefore(trace[k].id, j)

\* Two tasks waited in the queue together and both were started.
C4_Witness ==
  \E i \in Events :
    /\ Len(trace[i].q) >= 2
    /\ Happened("start", trace[i].q[1])
    /\ Happened("start", trace[i].q[2])


\* Task id was started before place j of the log and had by then neither
\* called done nor thrown (a task of finally is not given a done to call).
InFlightAt(id, j) ==
  \E i \in 1..(j - 1) :
    /\ Is(i, "start", id)
    /\ Op(id) # "finally"
    /\ \A k \in (i + 1)..(j - 1) :
         ~(trace[k].id = id /\ trace[k].e \in {"done", "doneErr", "throw"})

\* C5: no task is started while a task started earlier is still to call
\* done: there are never two tasks in flight.
C5_OneInFlight ==
  \A j \in Events :
    trace[j].e = "start" => \A id \in 1..Len(calls) : ~InFlightAt(id, j)


InQueueAt(id, j) == \E n \in 1..Len(trace[j].q) : trace[j].q[n] = id

\* C6: when the callback of a finally call is invoked, pendingCount is 0
\* and no task enqueued before that finally call is still in the queue or
\* in flight.
C6_FinallyBarrier ==
  \A j \in Events :
    trace[j].e = "fire" =>
      /\ trace[j].pc = 0
      /\ \A k \in 1..(At("call", trace[j].id) - 1) :
           trace[k].e = "enq" =>
             ~InQueueAt(trace[k].id, j) /\ ~InFlightAt(trace[k].id, j)


Finallys == {id \in 1..Len(calls) : Op(id) = "finally"}

Fired(id) == {j \in Events : Is(j, "fire", id)}

\* Every task calls done once without an error and no callback throws.
NoFault == \A id \in 1..Len(calls) : FaultFree(id)

\* No call was made between a call of finally and the invocation of its
\* callback, as the documentation of finally asks (flasync.js 35-36).
ConventionKept ==
  \A i \in Events :
    trace[i].e = "call" =>
      \A f \in Finallys :
        At("call", f) < i => \E j \in 1..(i - 1) : Is(j, "fire", f)

\* Read at place j of the log: the chain has drained.
NothingInFlightAt(j) == \A id \in 1..Len(calls) : ~InFlightAt(id, j)

\* C7 as stated: when every task calls done once without an error, every
\* callback given to finally is invoked exactly once; once no task is in
\* flight any more nothing is left that could still invoke one.
C7_EveryFinallyFiresOnce ==
  NoFault =>
    /\ \A f \in Finallys : Cardinality(Fired(f)) <= 1
    /\ inflight = {} => \A f \in Finallys : Cardinality(Fired(f)) = 1

\* C7 amended: a callback given to finally is never invoked twice; and in
\* a run without faults in which no call is made between a call of finally
\* and the invocation of its callback, once no task is in flight every
\* callback has been invoked exactly once, each with nothing that was
\* enqueued before its finally call left in the queue or in flight.
C7_FinallyFiresOnceByConvention ==
  /\ \A f \in Finallys : Cardinality(Fired(f)) <= 1
  /\ NoFault /\ ConventionKept =>
       /\ inflight = {} => \A f \in Finallys : Cardinality(Fired(f)) = 1
       /\ \A f \in Finallys : \A j \in Fired(f) :
            \A k \in 1..(At("call", f) - 1) :
              trace[k].e = "enq" =>
                ~InQueueAt(trace[k].id, j) /\ ~InFlightAt(trace[k].id, j)

\* Two callbacks of finally were invoked, the first one after waiting in
\* the queue behind an asynchronous task.
C7_Witness ==
  /\ NoFault
  /\ ConventionKept
  /\ inflight = {}
  /\ \E f, g \in Finallys :
       /\ f < g
       /\ trace[At("enq", f)].pc > 0
       /\ Fired(f) # {}
       /\ Fired(g) # {}

\* The call issued at place i of the log does what it does on a new chain:
\* an asyncified method runs inline, a task is enqueued and started at once.
BehavesFresh(i) ==
  LET id == trace[i].id
  IN /\ i + 2 <= Len(trace) \/ (i + 1 <= Len(trace) /\ Op(id) = "writeSync")
     /\ IF Op(id) = "writeSync"
          THEN trace[i + 1].id = id /\ trace[i + 1].e \in {"effect", "throw"}
          ELSE Is(i + 1, "enq", id) /\ Is(i + 2, "start", id)

\* The calls issued after a callback of finally was invoked.
AfterFire(i) == trace[i].e = "call" /\ \E j \in 1..(i - 1) : trace[j].e = "fire"

ReusedAsFresh ==
  /\ \A i \in Events :
       AfterFire(i) /\ NothingInFlightAt(i) => BehavesFresh(i)
  /\ \A i, j \in Events :
       /\ AfterFire(i)
       /\ Op(trace[i].id) # "finally"
       /\ FaultFree(trace[i].id)
       /\ ~DiscardedBefore(trace[i].id, j)
       /\ trace[j].e = "effect"
       /\ trace[i].id < trace[j].id
       => \E k \in 1..(j - 1) : Is(k, "effect", trace[i].id)

HandlerSetAt(j) == \E k \in 1..(j - 1) : trace[k].e = "onError"

\* At place j of the log a task that was started throws.
TaskThrowsAt(j) == trace[j].e = "throw" /\ Happened("start", trace[j].id)

\* C9: when a task throws while it is invoked and an error handler was
\* registered before, the queue is cleared and the handler is invoked with
\* that error, exactly once; the error is not rethrown, and no task that
\* was in the queue at that moment is ever started.
C9_SyncFaultWithHandler ==
  \A j \in Events :
    TaskThrowsAt(j) /\ HandlerSetAt(j) =>
      LET err == trace[j].id
      IN /\ j + 2 <= Len(trace)
         /\ Is(j + 1, "clear", err)
         /\ Is(j + 2, "handler", err)
         /\ Cardinality({k \in Events : Is(k, "handler", err)}) = 1
         /\ ~Happened("rethrow", err)
         /\ thrown # err
         /\ \A n \in 1..Len(trace[j].q) : ~Happened("start", trace[j].q[n])

\* A task threw with a task behind it in the queue and a handler
\* registered; the handler was invoked and the error did not escape.
C9_Witness ==
  \E j \in Events :
    /\ TaskThrowsAt(j)
    /\ HandlerSetAt(j)
    /\ Len(trace[j].q) >= 1
    /\ Happened("handler", trace[j].id)
    /\ thrown = 0

\* C10: with an error handler registered (one that makes no calls itself),
\* no call issued after the call that enqueued a task that throws is ever
\* run: its task is not started and its method has no effect.
C10_NothingRunsAfterThrow ==
  \A j \in Events :
    /\ TaskThrowsAt(j)
    /\ HandlerSetAt(At("call", trace[j].id))
    /\ handlerCalls = <<>>
    =>
      \A id \in (trace[j].id + 1)..Len(calls) :
        ~Happened("start", id) /\ ~Happened("effect", id)

\* C11: when a task throws while it is invoked and no error handler is
\* registered, the error is not swallowed: the queue is cleared,
\* pendingCount is reset to 0 and the error is thrown again, through every
\* call on the stack, until it leaves the call the event loop made (the
\* then or finally call that started the task, or the done call of an
\* earlier task); nothing is started and no call returns on the way, and
\* the queue is empty and pendingCount is 0 when the error leaves.
C11_SyncFaultWithoutHandler ==
  \A j \in Events :
    TaskThrowsAt(j) /\ ~HandlerSetAt(j) =>
      LET err == trace[j].id
      IN /\ j + 2 <= Len(trace)
         /\ Is(j + 1, "clear", err)
         /\ trace[j + 2] = [e |-> "rethrow", id |-> err, pc |-> 0, q |-> <<>>]
         /\ ~Happened("handler", err)
         /\ \E k \in (j + 3)..Len(trace) :
              /\ trace[k] = [e |-> "uncaught", id |-> err, pc |-> 0, q |-> <<>>]
              /\ \A m \in (j + 1)..(k - 1) :
                   trace[m].id = err /\ trace[m].e \in {"clear", "rethrow"}

\* A task started by the done call of an earlier task threw with a task
\* behind it in the queue and no handler registered: the error left the
\* done call, and the chain was left with pendingCount 0 and an empty queue.
C11_Witness ==
  \E j \in Events :
    /\ TaskThrowsAt(j)
    /\ ~HandlerSetAt(j)
    /\ Len(trace[j].q) >= 1
    /\ trace[j - 2].e = "done"
    /\ thrown = trace[j].id
    /\ pendingCount = 0
    /\ todo = <<>>

\* At place j of the log a task in flight calls done(err).
DoneWithErrorAt(j) == trace[j].e = "doneErr"

\* C12: when a task calls done(err) and an error handler was registered
\* before, the queue is cleared and the handler is invoked with that error,
\* exactly once; the error is not thrown; no task that was in the queue at
\* that moment is ever started or has its effect, and whatever is started
\* afterwards comes from a call issued after the handler was entered.
C12_AsyncFaultWithHandler ==
  \A j \in Events :
    DoneWithErrorAt(j) /\ HandlerSetAt(j) =>
      LET err == trace[j].id
      IN /\ j + 2 <= Len(trace)
         /\ trace[j + 1] = [trace[j] EXCEPT !.e = "clear"]
         /\ trace[j + 2] = [e |-> "handler", id |-> err, pc |-> 0, q |-> <<>>]
         /\ Cardinality({k \in Events : Is(k, "handler", err)}) = 1
         /\ ~Happened("rethrow", err) /\ ~Happened("uncaught", err)
         /\ \A n \in 1..Len(trace[j].q) :
              ~Happened("start", trace[j].q[n]) /\ ~Happened("effect", trace[j].q[n])
         /\ \A k \in (j + 1)..Len(trace) :
              trace[k].e \in {"start", "fire"} => At("call", trace[k].id) > j + 2

\* A task called done(err) with a task behind it in the queue and a handler
\* registered; the handler was invoked and a call was made afterwards.
C12_Witness ==
  \E j \in Events :
    /\ DoneWithErrorAt(j)
    /\ HandlerSetAt(j)
    /\ Len(trace[j].q) >= 1
    /\ Happened("handler", trace[j].id)
    /\ \E k \in (j + 3)..Len(trace) : trace[k].e = "call"

\* What done() and done(err) without a handler do at place j of the log:
\* pendingCount goes down by one and, when the queue is not empty, its head
\* is started at once with the rest of the queue left in place.
DrainsOnAt(j) ==
  IF trace[j].q # <<>>
    THEN /\ j + 1 <= Len(trace)
         /\ trace[j + 1] = [e |-> "start", id |-> Head(trace[j].q),
                            pc |-> trace[j].pc, q |-> Tail(trace[j].q)]
    ELSE IF j = Len(trace) THEN pendingCount = trace[j].pc - 1 /\ todo = <<>>
         ELSE trace[j + 1].pc = trace[j].pc - 1 /\ trace[j + 1].q = <<>>

\* C13: when a task calls done(err) and no error handler is registered,
\* the error is not thrown and the handler path is not taken: no task is
\* discarded, pendingCount goes down by exactly one and the next queued
\* task is started, exactly as for done().
C13_AsyncFaultWithoutHandler ==
  \A j \in Events :
    /\ DoneWithErrorAt(j) /\ ~HandlerSetAt(j) =>
         LET err == trace[j].id
         IN /\ DrainsOnAt(j)
            /\ \A e \in {"clear", "handler", "throw", "rethrow", "uncaught"} : ~Happened(e, err)
    /\ trace[j].e = "done" => DrainsOnAt(j)

\* A task called done(err) with two tasks behind it in the queue and no
\* handler registered, and both were started afterwards.
C13_Witness ==
  \E j \in Events :
    /\ DoneWithErrorAt(j)
    /\ ~HandlerSetAt(j)
    /\ Len(trace[j].q) >= 2
    /\ Happened("start", trace[j].q[1])
    /\ Happened("start", trace[j].q[2])

\* The first call issued after place j of the log is issued at place i.
FirstCallAfter(j, i) ==
  /\ i > j
  /\ trace[i].e = "call"
  /\ \A k \in (j + 1)..(i - 1) : trace[k].e # "call"

\* C14: after the error handler (one that makes no calls itself) has
\* returned, for a task that threw or for a done(err), pendingCount is 0 and
\* the queue is empty, so that the next call starts a new chain: a task is
\* started at once, an asyncified method runs inline.
C14_FreshAfterHandledFault ==
  handlerCalls = <<>> =>
    \A j \in Events :
      trace[j].e = "handler" =>
        /\ j = Len(trace) => pendingCount = 0 /\ todo = <<>>
        /\ \A i \in Events :
             FirstCallAfter(j, i) =>
               trace[i].pc = 0 /\ trace[i].q = <<>> /\ BehavesFresh(i)

\* C15: pendingCount is never negative, between the calls of the event loop
\* and at every step within them.
C15_PendingCountNotNegative ==
  /\ pendingCount >= 0
  /\ \A j \in Events : trace[j].pc >= 0

\* At place j of the log the function of task id has been called and has
\* neither returned nor thrown.
BodyOpenAt(id, j) ==
  \E i \in 1..(j - 1) :
    /\ Is(i, "start", id)
    /\ \A k \in (i + 1)..j : ~(trace[k].id = id /\ trace[k].e \in {"end", "throw"})

\* The function of the task started at place i of the log has neither
\* returned nor thrown at place j.
BodyOpenFrom(i, j) ==
  \A k \in (i + 1)..j : ~(trace[k].id = trace[i].id /\ trace[k].e \in {"end", "throw"})

\* Task id calls done before its function returns.
CallsDoneInBody(id) ==
  Op(id) = "writeSync" \/ (Op(id) = "then" /\ calls[id].beh = "done")

\* C16 as stated: no task is started while the function of another task
\* has not returned yet; a task that calls done() in its body has returned
\* before the next task starts.
C16_BodyRunsToCompletion ==
  \A j \in Events :
    trace[j].e = "start" =>
      \A id \in 1..Len(calls) : id # trace[j].id => ~BodyOpenAt(id, j)

\* C16 amended: a task is started only inside a call of done or inside a
\* call of then, finally or an asynchronous method made while pendingCount
\* is 0; the function of a task started with pendingCount at 1 or more
\* therefore runs up to its call of done with no other task started. It
\* does not run to completion first: done() starts the head of the queue
\* before it returns, while the function that called it has not returned.
C16_BodyRunsUpToDone ==
  /\ \A j \in Events :
       trace[j].e = "start" =>
         /\ j > 1
         /\ \/ trace[j - 1].e \in {"done", "doneErr"}
            \/ trace[j - 1].e = "enq" /\ trace[j - 1].pc = 0
         /\ trace[j - 1].q # <<>> /\ Head(trace[j - 1].q) = trace[j].id
  /\ \A j \in Events :
       trace[j].e = "start" =>
         \A i \in 1..(j - 1) :
           /\ trace[i].e = "start" /\ trace[i].pc >= 1 /\ Op(trace[i].id) # "finally"
           /\ BodyOpenFrom(i, j)
           => \E d \in (i + 1)..(j - 1) : Is(d, "done", trace[i].id)
  /\ \A j \in Events :
       trace[j].e = "done" /\ trace[j].q # <<>> =>
         /\ j + 1 <= Len(trace)
         /\ Is(j + 1, "start", Head(trace[j].q))
         /\ CallsDoneInBody(trace[j].id) => ~Is(j + 1, "end", trace[j].id)

\* A task given to then made two calls and called done(); the first of the
\* tasks it had enqueued was started before its function returned.
C16_Witness ==
  \E j \in Events :
    /\ trace[j].e = "done"
    /\ Op(trace[j].id) = "then"
    /\ Len(trace[j].q) >= 2
    /\ j + 1 <= Len(trace)
    /\ trace[j + 1].e = "start"
    /\ \E k \in (j + 2)..Len(trace) : Is(k, "end", trace[j].id)

\* Call n was issued by the function of task id before it called done.
NestedIn(n, id) ==
  /\ Op(id) = "then"
  /\ Happened("start", id) /\ Happened("done", id)
  /\ At("start", id) < At("call", n)
  /\ At("call", n) < At("done", id)

\* What call n does when it comes to run: the effect of a method, the
\* start of a task, the invocation of a callback of finally.
TakesEffectAt(k, n) == trace[k].id = n /\ trace[k].e \in {"effect", "start", "fire", "throw"}

\* C17: of the calls a task makes on the instance before it calls done,
\* none takes effect before that done: each is put in the queue and the
\* call returns; afterwards they take effect in the order in which the
\* task made them.
C17_Nesting ==
  \A id \in 1..Len(calls) : \A a \in 1..Len(calls) :
    NestedIn(a, id) =>
      /\ Is(At("call", a) + 1, "enq", a)
      /\ trace[At("call", a) + 2].e \in {"retThing", "retUndefined"}
      /\ \A k \in Events : TakesEffectAt(k, a) => k > At("done", id)
      /\ \A b \in 1..Len(calls) : \A k \in Events :
           NestedIn(b, id) /\ a < b /\ TakesEffectAt(k, b)
             /\ Op(a) # "finally" /\ FaultFree(a) /\ ~DiscardedBefore(a, k)
           => \E m \in 1..(k - 1) : Is(m, "effect", a)

\* At place i of the log a call of then, or of the asynchronous method.
ThenCallAt(i) == trace[i].e = "call" /\ Op(trace[i].id) \in {"then", "write"}

\* C18: a call of then, and likewise a call of a method wrapped by async,
\* first appends its task at the tail of the queue; with pendingCount at 0
\* it then dequeues the head of the queue and starts it, all within the
\* call (on an empty queue that is the new task itself); with pendingCount
\* above 0 it starts nothing and returns with the queue and pendingCount as
\* they are. Whenever the call returns, it returns the host object.
C18_ThenAppendsAndKicks ==
  \A i \in Events :
    ThenCallAt(i) =>
      LET id == trace[i].id
          queued == [e |-> "enq", id |-> id, pc |-> trace[i].pc, q |-> Append(trace[i].q, id)]
      IN /\ i + 2 <= Len(trace)
         /\ trace[i + 1] = queued
         /\ trace[i].pc = 0 =>
              trace[i + 2] = [e |-> "start", id |-> Head(queued.q), pc |-> 1, q |-> Tail(queued.q)]
         /\ trace[i].pc > 0 => trace[i + 2] = [queued EXCEPT !.e = "retThing"]
         /\ ~Happened("retUndefined", id)
         /\ \A k \in Events : Is(k, "retThing", id) =>
              /\ k > i + 1
              /\ trace[i].pc = 0 /\ trace[i].q = <<>> => At("start", id) < k

\* A call of the asynchronous method on an idle chain started its task
\* before it returned, and a later call of then, made while that task was
\* in flight, was only put in the queue.
C18_Witness ==
  \E i, j \in Events :
    /\ i < j
    /\ ThenCallAt(i) /\ Op(trace[i].id) = "write"
    /\ trace[i].pc = 0 /\ trace[i].q = <<>>
    /\ Is(i + 2, "start", trace[i].id)
    /\ Happened("retThing", trace[i].id)
    /\ ThenCallAt(j) /\ Op(trace[j].id) = "then"
    /\ trace[j].pc > 0
    /\ Is(j + 2, "retThing", trace[j].id)

\* The tasks that were dequeued at or before place j of the log and have
\* not completed by then: a task completes when its done is called, the
\* task of finally when it has counted itself out and invokes the callback.
OpenAt(j) ==
  {id \in 1..Len(calls) :
     \E i \in 1..j :
       /\ Is(i, "start", id)
       /\ IF Op(id) = "finally"
            THEN \A k \in i..j : ~Is(k, "fire", id)
            ELSE \A k \in i..(j - 1) : ~Is(k, "done", id)}

\* C19: in a run in which every task calls done once without an error and
\* nothing throws, pendingCount is at every step the number of tasks
\* dequeued and not yet completed, tasks of finally included, and it is
\* always 0 or 1.
C19_CounterAccounting ==
  NoFault =>
    /\ pendingCount \in {0, 1}
    /\ pendingCount = Cardinality(inflight)
    /\ \A j \in Events :
         /\ trace[j].pc \in {0, 1}
         /\ trace[j].pc = Cardinality(OpenAt(j))

\* In a run without faults a finally waited behind an asynchronous task,
\* its callback was invoked, and a second asynchronous task is in flight.
C19_Witness ==
  /\ NoFault
  /\ pendingCount = 1
  /\ \E f \in Finallys :
       /\ trace[At("enq", f)].pc = 1
       /\ Fired(f) # {}
       /\ \E id \in 1..Len(calls) : f < id /\ Op(id) = "write" /\ Happened("start", id)

\* C20: as long as a task that was started has not called done (and it has
\* not thrown), no task is started and no callback of finally is invoked,
\* whatever calls are made in the meantime.
C20_Stall ==
  \A t \in inflight :
    \A k \in (At("start", t.id) + 1)..Len(trace) :
      trace[k].e \notin {"start", "fire"}

\* The task that handed its done callback to finally, and that finally call.
SelfTasks == {x \in 1..Len(calls) : calls[x].beh = "selfFinally"}
NextFinallys == {f \in 1..Len(calls) : calls[f].beh = "next"}

\* C21: once a task in flight has given its own done callback to finally,
\* that callback is never invoked and the task never completes, and from
\* that call on no task is started and no callback of finally is invoked.
C21_SelfFinallyDeadlock ==
  \A f \in NextFinallys :
    /\ ~Happened("fire", f)
    /\ \A x \in SelfTasks : ~Happened("done", x)
    /\ \A k \in (At("call", f) + 1)..Len(trace) : trace[k].e \notin {"start", "fire"}

\* At place i of the log a call of finally on a chain with pendingCount 0
\* and an empty queue.
IdleFinallyAt(i) ==
  /\ trace[i].e = "call"
  /\ Op(trace[i].id) = "finally"
  /\ trace[i].pc = 0
  /\ trace[i].q = <<>>

\* Neither the callback of finally call id nor, when it throws, the error
\* handler makes a call on the instance.
MakesNoCalls(id) ==
  /\ calls[id].nest = <<>>
  /\ \/ calls[id].beh = "ok"
     \/ calls[id].beh = "throw" /\ handlerCalls = <<>>

\* C22: a call of finally with pendingCount 0 and an empty queue invokes
\* the callback within the call, with pendingCount 0 and the queue empty;
\* finally returns after the callback has ended, and unless the callback
\* (or the error handler, when the callback throws) has made calls of its
\* own, pendingCount is 0 and the queue is empty on return.
C22_FinallyOnIdleChain ==
  \A i \in Events :
    IdleFinallyAt(i) =>
      LET id == trace[i].id
          idle == [e |-> "fire", id |-> id, pc |-> 0, q |-> <<>>]
      IN /\ i + 3 <= Len(trace)
         /\ trace[i + 1] = [e |-> "enq", id |-> id, pc |-> 0, q |-> <<id>>]
         /\ trace[i + 2] = [e |-> "start", id |-> id, pc |-> 1, q |-> <<>>]
         /\ trace[i + 3] = idle
         /\ \A k \in Events : Is(k, "retUndefined", id) =>
              /\ k > i + 3
              /\ calls[id].beh = "ok" => Is(k - 1, "end", id)
              /\ MakesNoCalls(id) => trace[k] = [idle EXCEPT !.e = "retUndefined"]

\* After synchronous calls only, finally was called on the idle chain and
\* returned, its callback invoked.
C22_Witness ==
  \E i \in Events :
    /\ IdleFinallyAt(i)
    /\ calls[trace[i].id].nest = <<>>
    /\ Happened("retUndefined", trace[i].id)
    /\ \E j \in 1..(i - 1) : WriteSyncCallAt(j) /\ Happened("effect", trace[j].id)
    /\ pendingCount = 0 /\ todo = <<>>

\* C23: in a run in which every task calls done once without an error,
\* nothing throws and no call is made between a call of finally and the
\* invocation of its callback, between the calls of the event loop a
\* pendingCount of 0 means an empty queue: every queued task has a task in
\* flight ahead of it.
C23_NoStrandedTask ==
  NoFault /\ ConventionKept =>
    /\ pendingCount = 0 => todo = <<>>
    /\ todo # <<>> => inflight # {}

\* A task waited in the queue behind a task in flight and was started by
\* its done; a callback of finally was invoked; the chain is idle again.
C23_Witness ==
  /\ NoFault
  /\ ConventionKept
  /\ pendingCount = 0
  /\ todo = <<>>
  /\ Finallys # {}
  /\ \A f \in Finallys : Fired(f) # {}
  /\ \E j \in Events :
       /\ trace[j].e = "done"
       /\ trace[j].q # <<>>
       /\ Op(Head(trace[j].q)) # "finally"

\* Every task that was enqueued has been started.
AllStarted == \A j \in Events : trace[j].e = "enq" => Happened("start", trace[j].id)

\* The chain is idle and nothing is left to do.
Drained == pendingCount = 0 /\ todo = <<>> /\ inflight = {} /\ AllStarted

\* C24 as stated, read at the end of a run: in a run in which every task
\* calls done once without an error (and nothing throws), once no started
\* task is left that has still to call done, every enqueued task has been
\* started and the chain is back to idle, with pendingCount 0 and an empty
\* queue. Nothing but a further call can happen in a state that breaks
\* this, and the claim is about runs of finitely many calls.
C24_Drains == NoFault /\ ~CompleteEnabled => Drained

\* C24 amended: in a run in which every task calls done once without an
\* error and no call is made between a call of finally and the invocation
\* of its callback, a chain with nothing left in flight has drained, and a
\* chain that has not drained does so in the end.
C24_DrainsByConvention ==
  /\ [](NoFault /\ ConventionKept /\ ~CompleteEnabled => Drained)
  /\ (NoFault /\ ConventionKept /\ ~Drained) ~> (Drained \/ ~NoFault \/ ~ConventionKept)

\* A run without faults that keeps the convention has drained: a task
\* that waited in the queue behind an asynchronous task was started, and
\* the callback of a finally behind both was invoked.
C24_Witness ==
  /\ NoFault
  /\ ConventionKept
  /\ Drained
  /\ \E a, b \in 1..Len(calls), f \in Finallys :
       /\ a < b /\ b < f
       /\ Op(a) = "write"
       /\ trace[At("enq", b)].pc = 1
       /\ Happened("start", b)
       /\ trace[At("enq", f)].pc = 1
       /\ Fired(f) # {}

====
